---- MODULE Spec2Model ----
(***************************************************************************)
(* Model of src/gc/GC.cpp: the safepoint barrier (stopTheWorld), the GC    *)
(* worker pool (runPendingWork), the collector entry point (gc), the       *)
(* recursive marker (mark), the sweeper (sweep) and markAndSweep.          *)
(***************************************************************************)
EXTENDS Integers, Sequences, FiniteSets, TLC

\* ---------------------------------------------------------------- bounds
NumWorkers == 2   \* worker threads of gcThreadPool
NumCallers == 2   \* threads that may call gc()
MaxRefs == 1      \* non-null references in the heap graph, the frame and the statics
MaxThreads == 3   \* mutator threads that may call stopTheWorld()
MaxCalls == 2     \* stopTheWorld() calls one thread may make

Workers == 1..NumWorkers
Callers == 1..NumCallers
Threads == 1..MaxThreads

\* ---------------------------------------------------------------- heap values
ObjectOffsets == {1, 2}
ArrayOffsets == {1}
StaticKeys == {1}

Null == [kind |-> "null", offset |-> 0]
\* a static slot holding a primitive (JInt, ...): neither JObject nor JArray
Prim == [kind |-> "prim", offset |-> 0]
JObject(o) == [kind |-> "JObject", offset |-> o]
JArray(o) == [kind |-> "JArray", offset |-> o]
HeapValues == {JObject(o) : o \in ObjectOffsets} \cup {JArray(o) : o \in ArrayOffsets}
Refs == HeapValues \cup {Null}

\* one reference slot per object / array, one stack slot and one local slot per frame
SlotSeqs == {<<r>> : r \in Refs}
JavaFrames == [stackSlots : SlotSeqs, localSlots : SlotSeqs]
FrameChains == {<<f>> : f \in JavaFrames}

VARIABLES
    fields,                 \* yrt.jheap->getFields / getElements: heap value -> slots
    frameChain,             \* the frame chain the callers pass to gc()
    staticVars,             \* the staticVars map of the one loaded class: key -> JType*
    objectContainer,        \* keys of yrt.jheap->objectContainer.data
    arrayContainer,         \* keys of yrt.jheap->arrayContainer.data
    monitorContainer,       \* keys of yrt.jheap->monitorContainer.data
    objectBitmap,
    arrayBitmap,
    objSpin,                \* 0 = free, else the worker holding it
    arrSpin,                \* 0 = free, else the worker holding it
    overMemoryThreshold,
    overMemoryThresholdMtx, \* 0 = free, else the caller holding it
    frames,                 \* this->frames
    work,                   \* GCThreadPool::work
    done,                   \* GCThreadPool::done
    sleepMtx,               \* 0 = free, else the worker holding it
    taskQueue,              \* GCThreadPool::taskQueue
    ready,                  \* ids of the tasks whose future is ready
    nextTask,               \* id given to the next submitted task
    gcT,                    \* per caller of gc(): position and locals
    wk,                     \* per worker: position, task and mark recursion stack
    submitted,              \* history: task ids in submission order
    dequeued,               \* history: task ids in the order workers popped them
    atCall,                 \* history: per caller, the collector state when gc() was called
    crashed,                \* the native stack overflowed: the process is gone
    fin,                    \* position of the thread that calls GCThreadPool::finalize()
    safepointWaitMtx,       \* 0 = free, else the thread holding it
    safepointWaitCnt,
    threadNum,              \* YVM::executor.getThreadNum()
    participants,           \* the threads that call stopTheWorld()
    maxCalls,               \* stopTheWorld() calls each participant may make
    calls,                  \* per thread: stopTheWorld() calls made so far
    stw                     \* per thread: position in stopTheWorld()

heapVars == <<fields, frameChain, staticVars>>
gcVars == <<objectContainer, arrayContainer, monitorContainer, objectBitmap, arrayBitmap,
            overMemoryThreshold, overMemoryThresholdMtx, frames, gcT, atCall>>
spinVars == <<objSpin, arrSpin>>
poolVars == <<work, done, sleepMtx, taskQueue, ready, nextTask, wk, submitted, dequeued,
              crashed>>
stwVars == <<safepointWaitMtx, safepointWaitCnt, threadNum, participants, maxCalls, calls,
             stw>>
vars == <<heapVars, gcVars, spinVars, poolVars, fin, stwVars>>

\* ---------------------------------------------------------------- helpers
Range(s) == {s[i] : i \in 1..Len(s)}

NonNull(s) == Cardinality({i \in 1..Len(s) : s[i] # Null})

RECURSIVE SumOver(_, _)
SumOver(f, S) ==
    IF S = {} THEN 0
    ELSE LET x == CHOOSE y \in S : TRUE IN f[x] + SumOver(f, S \ {x})

\* number of non-null references of a heap configuration
RefCount(fl, ch, sv) ==
    SumOver([v \in HeapValues |-> NonNull(fl[v])], HeapValues)
    + NonNull(ch[1].stackSlots) + NonNull(ch[1].localSlots)
    + Cardinality({k \in DOMAIN sv : sv[k] \in HeapValues})

IsPrefix(s, t) == Len(s) <= Len(t) /\ \A i \in 1..Len(s) : s[i] = t[i]

NoTask == [id |-> 0, kind |-> "none", frame |-> 0]
Task(id, kind, frame) == [id |-> id, kind |-> kind, frame |-> frame]
MarkKinds == {"stack", "local", "static"}
SweepKinds == {"sweepObject", "sweepArray", "sweepMonitor"}

NoFutures == [stack |-> <<>>, local |-> <<>>, static |-> 0,
              object |-> 0, array |-> 0, monitor |-> 0]
\* the collector state a call made while the flag is clear starts from
Snapshot == [objectContainer |-> objectContainer, arrayContainer |-> arrayContainer,
             monitorContainer |-> monitorContainer, objectBitmap |-> objectBitmap,
             arrayBitmap |-> arrayBitmap, overMemoryThreshold |-> overMemoryThreshold,
             submitted |-> submitted]

NoSnapshot == [overMemoryThreshold |-> TRUE]

\* ---------------------------------------------------------------- initial states
InitGraph(maxRefs) ==
    /\ fields \in [HeapValues -> SlotSeqs]
    /\ frameChain \in FrameChains
    /\ staticVars \in UNION {[{k} -> HeapValues \cup {Prim}] : k \in StaticKeys}
    /\ RefCount(fields, frameChain, staticVars) <= maxRefs

\* every object and array of the family is in its container
InitHeap(maxRefs) ==
    /\ InitGraph(maxRefs)
    /\ objectContainer = ObjectOffsets
    /\ arrayContainer = ArrayOffsets
    /\ monitorContainer = ObjectOffsets \cup ArrayOffsets

InitGC ==
    /\ objectBitmap = {}
    /\ arrayBitmap = {}
    /\ objSpin = 0
    /\ arrSpin = 0
    /\ overMemoryThresholdMtx = 0
    /\ frames = <<>>
    /\ gcT = [c \in Callers |-> [pc |-> "idle", temp |-> 0, fut |-> NoFutures, ran |-> FALSE]]

InitPool ==
    /\ work = FALSE
    /\ done = FALSE
    /\ sleepMtx = 0
    /\ taskQueue = <<>>
    /\ ready = {}
    /\ nextTask = 1
    /\ wk = [w \in Workers |-> [pc |-> "loop", task |-> NoTask, i |-> 1, stack |-> <<>>, ref |-> Null]]
    /\ submitted = <<>>
    /\ dequeued = <<>>
    /\ crashed = FALSE
    /\ fin = "idle"

InitBarrier ==
    /\ safepointWaitMtx = 0
    /\ safepointWaitCnt = 0
    /\ stw = [t \in Threads |-> "idle"]
    /\ calls = [t \in Threads |-> 0]

\* no thread uses the safepoint barrier
NoBarrier ==
    /\ InitBarrier
    /\ threadNum = 1
    /\ participants = {}
    /\ maxCalls = 0

InitCollector(maxRefs) ==
    /\ InitHeap(maxRefs)
    /\ overMemoryThreshold \in BOOLEAN
    /\ InitGC
    /\ InitPool
    /\ atCall = [c \in Callers |-> NoSnapshot]
    /\ NoBarrier

Init == InitCollector(MaxRefs)

\* heaps with one more reference: a root and a reference cycle behind it
InitDeep == InitCollector(MaxRefs + 1)

\* heaps where some offsets have no entry in their container (never allocated, or
\* erased by an earlier cycle); every reference points to an entry that exists
InitSparse ==
    /\ InitGraph(MaxRefs)
    /\ objectContainer \in SUBSET ObjectOffsets
    /\ arrayContainer \in SUBSET ArrayOffsets
    /\ monitorContainer = objectContainer \cup arrayContainer
    /\ \A v \in HeapValues :
        IF (v.kind = "JObject" /\ v.offset \in objectContainer)
           \/ (v.kind = "JArray" /\ v.offset \in arrayContainer)
        THEN TRUE
        ELSE /\ Range(fields[v]) = {Null}
             /\ \A u \in HeapValues : v \notin Range(fields[u])
             /\ v \notin Range(frameChain[1].stackSlots) \cup Range(frameChain[1].localSlots)
             /\ \A k \in DOMAIN staticVars : staticVars[k] # v
    /\ overMemoryThreshold \in BOOLEAN
    /\ InitGC
    /\ InitPool
    /\ atCall = [c \in Callers |-> NoSnapshot]
    /\ NoBarrier

\* heaps where the stack slot and the local slot of the frame reference the same heap
\* value, so that the value is marked along two paths
InitShared ==
    /\ InitCollector(MaxRefs + 2)
    /\ frameChain[1].stackSlots = frameChain[1].localSlots
    /\ frameChain[1].stackSlots[1] # Null

\* ---------------------------------------------------------------- worker pool
\* sleepCnd.notify_all(): every worker blocked in sleepCnd.wait becomes runnable
NotifyAllSleep(W) ==
    [w \in Workers |-> IF W[w].pc = "waiting" THEN [W[w] EXCEPT !.pc = "woken"] ELSE W[w]]

\* signalWork(): sets the work flag and wakes the workers
SignalWork ==
    /\ work' = TRUE
    /\ wk' = NotifyAllSleep(wk)

\* signalWait(): clears the work flag
SignalWait == work' = FALSE

\* submit(task): enqueue under taskQueueMtx, hand back the task's future
Submit(kind, frame) ==
    /\ taskQueue' = Append(taskQueue, Task(nextTask, kind, frame))
    /\ submitted' = Append(submitted, nextTask)
    /\ nextTask' = nextTask + 1

\* mutant: the front task is read and never popped
PopNothing(q) == q

\* lines 36-37: the task a worker takes and the queue it leaves behind
Front(q) == Head(q)
Pop(q) == Tail(q)

\* a task returned: its future becomes ready, the worker's lock goes out of scope
Finish(w) ==
    /\ ready' = ready \cup {wk[w].task.id}
    /\ sleepMtx' = 0
    /\ wk' = [wk EXCEPT ![w] = [pc |-> "loop", task |-> NoTask, i |-> 1, stack |-> <<>>, ref |-> Null]]

\* mutant: sleepMtx is released before the task runs
TakeTaskUnlocked(w) ==
    IF taskQueue # <<>>
    THEN /\ wk' = [wk EXCEPT ![w] = [pc |-> "run", task |-> Front(taskQueue),
                                      i |-> 1, stack |-> <<>>, ref |-> Null]]
         /\ dequeued' = Append(dequeued, Front(taskQueue).id)
         /\ taskQueue' = Pop(taskQueue)
         /\ sleepMtx' = 0
    ELSE /\ wk' = [wk EXCEPT ![w].pc = "loop"]
         /\ sleepMtx' = 0
         /\ UNCHANGED <<taskQueue, dequeued>>

\* lines 34-42: under taskQueueMtx, pop the front task if there is one and start
\* it; with an empty queue the iteration ends and sleepMtx is released
TakeTask(w) ==
    IF taskQueue # <<>>
    THEN /\ wk' = [wk EXCEPT ![w] = [pc |-> "run", task |-> Front(taskQueue),
                                      i |-> 1, stack |-> <<>>, ref |-> Null]]
         /\ dequeued' = Append(dequeued, Front(taskQueue).id)
         /\ taskQueue' = Pop(taskQueue)
         /\ sleepMtx' = w
    ELSE /\ wk' = [wk EXCEPT ![w].pc = "loop"]
         /\ sleepMtx' = 0
         /\ UNCHANGED <<taskQueue, dequeued>>

\* lines 30-42: the test of the work flag under sleepMtx and what follows it
TestWork(w) ==
    IF work
    THEN TakeTask(w)
    ELSE /\ wk' = [wk EXCEPT ![w].pc = "prewait"]
         /\ sleepMtx' = w
         /\ UNCHANGED <<taskQueue, dequeued>>

\* lines 28-42: while (!done) { lock sleepMtx; test work; take a task }
W_Loop(w) ==
    /\ ~crashed
    /\ wk[w].pc = "loop"
    /\ IF done
       THEN /\ wk' = [wk EXCEPT ![w].pc = "exited"]
            /\ UNCHANGED <<sleepMtx, taskQueue, dequeued>>
       ELSE /\ sleepMtx = 0
            /\ TestWork(w)
    /\ UNCHANGED <<heapVars, fin, spinVars, gcVars, stwVars, work, done, ready, nextTask, submitted,
                   crashed>>

\* line 31: sleepCnd.wait(lock) releases sleepMtx and blocks
W_Wait(w) ==
    /\ ~crashed
    /\ wk[w].pc = "prewait"
    /\ sleepMtx' = 0
    /\ wk' = [wk EXCEPT ![w].pc = "waiting"]
    /\ UNCHANGED <<heapVars, fin, spinVars, gcVars, stwVars, work, done, taskQueue, ready, nextTask,
                   submitted, dequeued, crashed>>

\* a condition variable may wake a waiter without a notify
W_Spurious(w) ==
    /\ ~crashed
    /\ wk[w].pc = "waiting"
    /\ wk' = [wk EXCEPT ![w].pc = "woken"]
    /\ UNCHANGED <<heapVars, fin, spinVars, gcVars, stwVars, work, done, sleepMtx, taskQueue, ready,
                   nextTask, submitted, dequeued, crashed>>

\* lines 30-42: wait() returns holding sleepMtx again, the loop re-tests work
W_Wake(w) ==
    /\ ~crashed
    /\ wk[w].pc = "woken"
    /\ sleepMtx = 0
    /\ TestWork(w)
    /\ UNCHANGED <<heapVars, fin, spinVars, gcVars, stwVars, work, done, ready, nextTask, submitted,
                   crashed>>

\* line 21: some thread calls finalize(), once
FinalizeCall ==
    /\ fin = "idle"
    /\ fin' = "setWork"
    /\ UNCHANGED <<heapVars, gcVars, spinVars, poolVars, stwVars>>

\* line 22: work = true, written without sleepMtx
FinalizeWork ==
    /\ fin = "setWork"
    /\ work' = TRUE
    /\ fin' = "setDone"
    /\ UNCHANGED <<heapVars, gcVars, spinVars, stwVars, done, sleepMtx, taskQueue, ready,
                   nextTask, wk, submitted, dequeued, crashed>>

\* line 23: done = true
FinalizeDone ==
    /\ fin = "setDone"
    /\ done' = TRUE
    /\ fin' = "notify"
    /\ UNCHANGED <<heapVars, gcVars, spinVars, stwVars, work, sleepMtx, taskQueue, ready,
                   nextTask, wk, submitted, dequeued, crashed>>

\* line 24: sleepCnd.notify_all(), then finalize() returns
FinalizeNotify ==
    /\ fin = "notify"
    /\ wk' = NotifyAllSleep(wk)
    /\ fin' = "returned"
    /\ UNCHANGED <<heapVars, gcVars, spinVars, stwVars, work, done, sleepMtx, taskQueue,
                   ready, nextTask, submitted, dequeued, crashed>>

\* the statements of a finalize() that has been called
FinalizeStep ==
    \/ FinalizeWork
    \/ FinalizeDone
    \/ FinalizeNotify

\* ---------------------------------------------------------------- marker
\* the deepest recursion an acyclic path can need; a deeper one repeats a heap
\* value, never ends, and overflows the native stack
StackLimit == Cardinality(HeapValues)

RECURSIVE Unwind(_, _)
\* mark() returns once its loop over the fields / elements is over
Unwind(st, fl) ==
    IF st = <<>> THEN st
    ELSE IF st[Len(st)].i > Len(fl[st[Len(st)].ref])
         THEN Unwind(SubSeq(st, 1, Len(st) - 1), fl)
         ELSE st

\* mutant: inserting an offset that is present takes it out again
InsertFlip(bitmap, offset) ==
    IF offset \in bitmap THEN bitmap \ {offset} ELSE bitmap \cup {offset}

\* the mark sets are sets of heap offsets: inserting adds the offset when it is absent
Insert(bitmap, offset) == bitmap \cup {offset}

\* mutant: a null ref is not turned away, its offset 0 is inserted as an object's
MarkNullAsObject(ref, st, ob, ab) ==
    IF ref = Null
    THEN [stack |-> st, objectBitmap |-> Insert(ob, ref.offset), arrayBitmap |-> ab,
          overflow |-> FALSE]
    ELSE [stack |-> IF Len(st) < StackLimit
                    THEN Append(st, [ref |-> ref, i |-> 1]) ELSE st,
          objectBitmap |-> IF ref.kind = "JObject" THEN Insert(ob, ref.offset) ELSE ob,
          arrayBitmap |-> IF ref.kind = "JArray" THEN Insert(ab, ref.offset) ELSE ab,
          overflow |-> Len(st) >= StackLimit]

\* lines 69-95, one invocation of mark(ref) up to its first recursive call
Mark(ref, st, ob, ab) ==
    IF ref = Null
    THEN [stack |-> st, objectBitmap |-> ob, arrayBitmap |-> ab, overflow |-> FALSE]
    ELSE [stack |-> IF Len(st) < StackLimit
                    THEN Append(st, [ref |-> ref, i |-> 1]) ELSE st,
          objectBitmap |-> IF ref.kind = "JObject" THEN Insert(ob, ref.offset) ELSE ob,
          arrayBitmap |-> IF ref.kind = "JArray" THEN Insert(ab, ref.offset) ELSE ab,
          overflow |-> Len(st) >= StackLimit]

\* mutant: the insertion is entered without taking a spin lock
SpinLockNone(w, kind) == UNCHANGED <<objSpin, arrSpin>>

\* lines 79, 88, 174, 179: lock_guard<SpinLock> on objSpin for an object, on arrSpin
\* for an array; the guard is taken once the lock is free
SpinLock(w, kind) ==
    IF kind = "JObject"
    THEN /\ objSpin = 0
         /\ objSpin' = w
         /\ UNCHANGED arrSpin
    ELSE /\ arrSpin = 0
         /\ arrSpin' = w
         /\ UNCHANGED objSpin

\* lines 81, 90, 176, 181: the guard's scope ends right after the insertion
SpinUnlock(w, kind) ==
    IF kind = "JObject"
    THEN /\ objSpin' = 0
         /\ UNCHANGED arrSpin
    ELSE /\ arrSpin' = 0
         /\ UNCHANGED objSpin

\* lines 155, 161: the slots the task of worker w walks
TaskSlots(w) ==
    IF wk[w].task.kind = "stack" THEN frameChain[wk[w].task.frame].stackSlots
    ELSE frameChain[wk[w].task.frame].localSlots

\* lines 83, 93, 156, 162: the argument of the next mark() call of worker w's task
PendingRef(w) ==
    LET st == wk[w].stack
        top == st[Len(st)]
    IN IF st = <<>> THEN TaskSlots(w)[wk[w].i] ELSE fields[top.ref][top.i]

\* lines 154-164 and 69-79, 86-88: the stack-slot / local-slot task of one frame calls
\* mark(ref); a null ref returns at once, any other ref takes the spin lock of its bitmap
RunMark(w) ==
    /\ ~crashed
    /\ wk[w].pc = "run"
    /\ wk[w].task.kind \in {"stack", "local"}
    /\ wk[w].ref = Null
    /\ LET st == wk[w].stack
           ref == PendingRef(w)
           st1 == IF st = <<>> THEN st ELSE [st EXCEPT ![Len(st)].i = @ + 1]
           i1 == IF st = <<>> THEN wk[w].i + 1 ELSE wk[w].i
           r == Mark(ref, st1, objectBitmap, arrayBitmap)
           st2 == Unwind(r.stack, fields)
       IN IF ref = Null
          THEN /\ objectBitmap' = r.objectBitmap
               /\ arrayBitmap' = r.arrayBitmap
               /\ IF st2 = <<>> /\ i1 > Len(TaskSlots(w))
                  THEN Finish(w)
                  ELSE /\ wk' = [wk EXCEPT ![w].stack = st2, ![w].i = i1]
                       /\ UNCHANGED <<ready, sleepMtx>>
               /\ UNCHANGED spinVars
          ELSE /\ SpinLock(w, ref.kind)
               /\ wk' = [wk EXCEPT ![w].stack = st1, ![w].i = i1, ![w].ref = ref]
               /\ UNCHANGED <<objectBitmap, arrayBitmap, ready, sleepMtx>>
    /\ UNCHANGED <<heapVars, fin, stwVars, objectContainer, arrayContainer, monitorContainer,
                   overMemoryThreshold, overMemoryThresholdMtx, frames, gcT, atCall,
                   work, done, taskQueue, nextTask, submitted, dequeued, crashed>>

\* lines 79-85, 88-95: the insertion under the spin lock, the end of the guard's scope,
\* and the loop over the fields / elements up to its first recursive call
MarkInsert(w) ==
    /\ ~crashed
    /\ wk[w].pc = "run"
    /\ wk[w].task.kind \in {"stack", "local"}
    /\ wk[w].ref # Null
    /\ LET r == Mark(wk[w].ref, wk[w].stack, objectBitmap, arrayBitmap)
           st2 == Unwind(r.stack, fields)
       IN /\ objectBitmap' = r.objectBitmap
          /\ arrayBitmap' = r.arrayBitmap
          /\ SpinUnlock(w, wk[w].ref.kind)
          /\ IF r.overflow
             THEN /\ crashed' = TRUE
                  /\ wk' = [wk EXCEPT ![w].ref = Null]
                  /\ UNCHANGED <<ready, sleepMtx>>
             ELSE /\ UNCHANGED crashed
                  /\ IF st2 = <<>> /\ wk[w].i > Len(TaskSlots(w))
                     THEN Finish(w)
                     ELSE /\ wk' = [wk EXCEPT ![w].stack = st2, ![w].ref = Null]
                          /\ UNCHANGED <<ready, sleepMtx>>
    /\ UNCHANGED <<heapVars, fin, stwVars, objectContainer, arrayContainer, monitorContainer,
                   overMemoryThreshold, overMemoryThresholdMtx, frames, gcT, atCall,
                   work, done, taskQueue, nextTask, submitted, dequeued>>

\* lines 171-182: what the static-field task inserts for the fields of one runtime type
StaticMarks(sv, kind) == {k \in DOMAIN sv : sv[k].kind = kind}

\* line 170: the static fields the for_each has not visited yet, in key order
StaticLeft(i) == {k \in DOMAIN staticVars : k >= i}

StaticKey(i) == CHOOSE k \in StaticLeft(i) : \A j \in StaticLeft(i) : k <= j

\* lines 168-174, 177-179: the static-field task looks at the runtime type of the next
\* static field; a JObject takes objSpin, a JArray takes arrSpin, anything else is skipped
RunStaticLock(w) ==
    /\ ~crashed
    /\ wk[w].pc = "run"
    /\ wk[w].task.kind = "static"
    /\ wk[w].ref = Null
    /\ LET k == StaticKey(wk[w].i)
           v == staticVars[k]
       IN IF v \in HeapValues
          THEN /\ SpinLock(w, v.kind)
               /\ wk' = [wk EXCEPT ![w].i = k, ![w].ref = v]
               /\ UNCHANGED <<ready, sleepMtx>>
          ELSE /\ IF StaticLeft(k + 1) = {}
                  THEN Finish(w)
                  ELSE /\ wk' = [wk EXCEPT ![w].i = k + 1]
                       /\ UNCHANGED <<ready, sleepMtx>>
               /\ UNCHANGED spinVars
    /\ UNCHANGED <<heapVars, fin, stwVars, objectContainer, arrayContainer, monitorContainer,
                   objectBitmap, arrayBitmap,
                   overMemoryThreshold, overMemoryThresholdMtx, frames, gcT, atCall,
                   work, done, taskQueue, nextTask, submitted, dequeued, crashed>>

\* lines 174-176, 179-181: the insertion of the static-field task under the spin lock;
\* the task returns after the last static field
RunStatic(w) ==
    /\ ~crashed
    /\ wk[w].pc = "run"
    /\ wk[w].task.kind = "static"
    /\ wk[w].ref # Null
    /\ LET k == wk[w].i
           field == [j \in {k} |-> staticVars[j]]
       IN /\ objectBitmap' = objectBitmap \cup StaticMarks(field, "JObject")
          /\ arrayBitmap' = arrayBitmap \cup StaticMarks(field, "JArray")
          /\ SpinUnlock(w, wk[w].ref.kind)
          /\ IF StaticLeft(k + 1) = {}
             THEN Finish(w)
             ELSE /\ wk' = [wk EXCEPT ![w].i = k + 1, ![w].ref = Null]
                  /\ UNCHANGED <<ready, sleepMtx>>
    /\ UNCHANGED <<heapVars, fin, stwVars, objectContainer, arrayContainer, monitorContainer,
                   overMemoryThreshold, overMemoryThresholdMtx, frames, gcT, atCall,
                   work, done, taskQueue, nextTask, submitted, dequeued, crashed>>

\* ---------------------------------------------------------------- sweeper
\* lines 108, 120: an object / array entry is erased when its key is not in its bitmap
Dead(key, bitmap) == key \notin bitmap

\* lines 136-137: a monitor entry is erased when its key misses either bitmap
MonitorDead(key, ob, ab) == key \notin ob \/ key \notin ab

\* lines 102-114
RunSweepObject(w) ==
    /\ ~crashed
    /\ wk[w].pc = "run"
    /\ wk[w].task.kind = "sweepObject"
    /\ objectContainer' = {k \in objectContainer : ~Dead(k, objectBitmap)}
    /\ Finish(w)
    /\ UNCHANGED <<heapVars, fin, spinVars, stwVars, arrayContainer, monitorContainer, objectBitmap,
                   arrayBitmap, overMemoryThreshold, overMemoryThresholdMtx, frames, gcT,
                   atCall, work, done, taskQueue, nextTask, submitted, dequeued, crashed>>

\* mutant: the array sweep walks objectContainer instead of arrayContainer
RunSweepArrayOverObjects(w) ==
    /\ ~crashed
    /\ wk[w].pc = "run"
    /\ wk[w].task.kind = "sweepArray"
    /\ objectContainer' = {k \in objectContainer : ~Dead(k, arrayBitmap)}
    /\ Finish(w)
    /\ UNCHANGED <<heapVars, fin, spinVars, stwVars, arrayContainer, monitorContainer,
                   objectBitmap, arrayBitmap, overMemoryThreshold, overMemoryThresholdMtx,
                   frames, gcT, atCall, work, done, taskQueue, nextTask, submitted,
                   dequeued, crashed>>

\* lines 116-130
RunSweepArray(w) ==
    /\ ~crashed
    /\ wk[w].pc = "run"
    /\ wk[w].task.kind = "sweepArray"
    /\ arrayContainer' = {k \in arrayContainer : ~Dead(k, arrayBitmap)}
    /\ Finish(w)
    /\ UNCHANGED <<heapVars, fin, spinVars, stwVars, objectContainer, monitorContainer, objectBitmap,
                   arrayBitmap, overMemoryThreshold, overMemoryThresholdMtx, frames, gcT,
                   atCall, work, done, taskQueue, nextTask, submitted, dequeued, crashed>>

\* lines 132-143
RunSweepMonitor(w) ==
    /\ ~crashed
    /\ wk[w].pc = "run"
    /\ wk[w].task.kind = "sweepMonitor"
    /\ monitorContainer' =
           {k \in monitorContainer : ~MonitorDead(k, objectBitmap, arrayBitmap)}
    /\ Finish(w)
    /\ UNCHANGED <<heapVars, fin, spinVars, stwVars, objectContainer, arrayContainer, objectBitmap,
                   arrayBitmap, overMemoryThreshold, overMemoryThresholdMtx, frames, gcT,
                   atCall, work, done, taskQueue, nextTask, submitted, dequeued, crashed>>

\* ---------------------------------------------------------------- collector
\* a thread calls gc(frameChain, policy); the callers are interchangeable and are
\* numbered in the order of their calls
GcCall(c) ==
    /\ ~crashed
    /\ gcT[c].pc = "idle"
    /\ \A b \in Callers : b < c => gcT[b].pc # "idle"
    /\ gcT' = [gcT EXCEPT ![c].pc = "acquire"]
    /\ atCall' = [atCall EXCEPT ![c] = IF overMemoryThreshold THEN NoSnapshot ELSE Snapshot]
    /\ UNCHANGED <<heapVars, fin, spinVars, poolVars, stwVars, objectContainer, arrayContainer,
                   monitorContainer, objectBitmap, arrayBitmap, overMemoryThreshold,
                   overMemoryThresholdMtx, frames>>

\* mutant: gc() entered without waiting for overMemoryThresholdMtx
GcLockNoMutex(c) ==
    /\ ~crashed
    /\ gcT[c].pc = "acquire"
    /\ overMemoryThresholdMtx' = c
    /\ gcT' = [gcT EXCEPT ![c].pc = "locked"]
    /\ UNCHANGED <<heapVars, fin, spinVars, poolVars, stwVars, objectContainer, arrayContainer,
                   monitorContainer, objectBitmap, arrayBitmap, overMemoryThreshold,
                   frames, atCall>>

\* line 47: lock_guard<mutex> lock(overMemoryThresholdMtx)
GcLock(c) ==
    /\ ~crashed
    /\ gcT[c].pc = "acquire"
    /\ overMemoryThresholdMtx = 0
    /\ overMemoryThresholdMtx' = c
    /\ gcT' = [gcT EXCEPT ![c].pc = "locked"]
    /\ UNCHANGED <<heapVars, fin, spinVars, poolVars, stwVars, objectContainer, arrayContainer,
                   monitorContainer, objectBitmap, arrayBitmap, overMemoryThreshold,
                   frames, atCall>>

\* mutant: the cycle runs whatever the flag says
GcCheckNoTest(c) ==
    /\ ~crashed
    /\ gcT[c].pc = "locked"
    /\ frames' = frameChain
    /\ SignalWork
    /\ gcT' = [gcT EXCEPT ![c].pc = "submitStack", ![c].ran = TRUE,
                          ![c].temp = IF frameChain = <<>> THEN 0 ELSE 1]
    /\ UNCHANGED <<heapVars, fin, spinVars, stwVars, objectContainer, arrayContainer, monitorContainer,
                   objectBitmap, arrayBitmap, overMemoryThreshold, overMemoryThresholdMtx,
                   atCall, done, sleepMtx, taskQueue, ready, nextTask, submitted, dequeued,
                   crashed>>

\* lines 48-55 and 152: record the frames; return if the flag is clear, else wake
\* the pool and enter markAndSweep with temp = frames->top()
GcCheck(c) ==
    /\ ~crashed
    /\ gcT[c].pc = "locked"
    /\ frames' = frameChain
    /\ IF ~overMemoryThreshold
       THEN /\ overMemoryThresholdMtx' = 0
            /\ gcT' = [gcT EXCEPT ![c].pc = "done"]
            /\ UNCHANGED <<work, wk>>
       ELSE /\ SignalWork
            /\ gcT' = [gcT EXCEPT ![c].pc = "submitStack", ![c].ran = TRUE,
                                  ![c].temp = IF frameChain = <<>> THEN 0 ELSE 1]
            /\ UNCHANGED overMemoryThresholdMtx
    /\ UNCHANGED <<heapVars, fin, spinVars, stwVars, objectContainer, arrayContainer, monitorContainer,
                   objectBitmap, arrayBitmap, overMemoryThreshold, atCall, done, sleepMtx,
                   taskQueue, ready, nextTask, submitted, dequeued, crashed>>

\* lines 154-158: submit the stack-slot mark task of frame temp
SubmitStackMark(c) ==
    /\ ~crashed
    /\ gcT[c].pc = "submitStack"
    /\ Submit("stack", gcT[c].temp)
    /\ gcT' = [gcT EXCEPT ![c].pc = "submitLocal",
                          ![c].fut.stack = Append(@, nextTask)]
    /\ UNCHANGED <<heapVars, fin, spinVars, stwVars, objectContainer, arrayContainer, monitorContainer,
                   objectBitmap, arrayBitmap, overMemoryThreshold, overMemoryThresholdMtx,
                   frames, atCall, work, done, sleepMtx, ready, wk, dequeued, crashed>>

\* lines 160-166: submit the local-slot mark task of frame temp; temp = temp->next
SubmitLocalMark(c) ==
    /\ ~crashed
    /\ gcT[c].pc = "submitLocal"
    /\ Submit("local", gcT[c].temp)
    /\ LET next == IF gcT[c].temp < Len(frames) THEN gcT[c].temp + 1 ELSE 0
       IN gcT' = [gcT EXCEPT ![c].pc = IF next = 0 THEN "submitStatic" ELSE "submitStack",
                             ![c].temp = next,
                             ![c].fut.local = Append(@, nextTask)]
    /\ UNCHANGED <<heapVars, fin, spinVars, stwVars, objectContainer, arrayContainer, monitorContainer,
                   objectBitmap, arrayBitmap, overMemoryThreshold, overMemoryThresholdMtx,
                   frames, atCall, work, done, sleepMtx, ready, wk, dequeued, crashed>>

\* lines 168-185: submit the static-field mark task
SubmitStaticMark(c) ==
    /\ ~crashed
    /\ gcT[c].pc = "submitStatic"
    /\ Submit("static", 0)
    /\ gcT' = [gcT EXCEPT ![c].pc = "getStatic", ![c].fut.static = nextTask]
    /\ UNCHANGED <<heapVars, fin, spinVars, stwVars, objectContainer, arrayContainer, monitorContainer,
                   objectBitmap, arrayBitmap, overMemoryThreshold, overMemoryThresholdMtx,
                   frames, atCall, work, done, sleepMtx, ready, wk, dequeued, crashed>>

\* mutant: the static-field future is not waited for
GetStaticNoWait(c) ==
    /\ ~crashed
    /\ gcT[c].pc = "getStatic"
    /\ gcT' = [gcT EXCEPT ![c].pc = "getStack"]
    /\ UNCHANGED <<heapVars, fin, spinVars, poolVars, stwVars, objectContainer, arrayContainer,
                   monitorContainer, objectBitmap, arrayBitmap, overMemoryThreshold,
                   overMemoryThresholdMtx, frames, atCall>>

\* line 187: staticFieldsFuture.get()
GetStatic(c) ==
    /\ ~crashed
    /\ gcT[c].pc = "getStatic"
    /\ gcT[c].fut.static \in ready
    /\ gcT' = [gcT EXCEPT ![c].pc = "getStack"]
    /\ UNCHANGED <<heapVars, fin, spinVars, poolVars, stwVars, objectContainer, arrayContainer,
                   monitorContainer, objectBitmap, arrayBitmap, overMemoryThreshold,
                   overMemoryThresholdMtx, frames, atCall>>

\* lines 189-191: sk.get() for every stack mark future
GetStackMarks(c) ==
    /\ ~crashed
    /\ gcT[c].pc = "getStack"
    /\ Range(gcT[c].fut.stack) \subseteq ready
    /\ gcT' = [gcT EXCEPT ![c].pc = "getLocal"]
    /\ UNCHANGED <<heapVars, fin, spinVars, poolVars, stwVars, objectContainer, arrayContainer,
                   monitorContainer, objectBitmap, arrayBitmap, overMemoryThreshold,
                   overMemoryThresholdMtx, frames, atCall>>

\* lines 192-196: lv.get() for every local mark future, then sweep() is entered
GetLocalMarks(c) ==
    /\ ~crashed
    /\ gcT[c].pc = "getLocal"
    /\ Range(gcT[c].fut.local) \subseteq ready
    /\ gcT' = [gcT EXCEPT ![c].pc = "sweepObject"]
    /\ UNCHANGED <<heapVars, fin, spinVars, poolVars, stwVars, objectContainer, arrayContainer,
                   monitorContainer, objectBitmap, arrayBitmap, overMemoryThreshold,
                   overMemoryThresholdMtx, frames, atCall>>

\* lines 102-114: submit the object sweep task
SubmitSweepObject(c) ==
    /\ ~crashed
    /\ gcT[c].pc = "sweepObject"
    /\ Submit("sweepObject", 0)
    /\ gcT' = [gcT EXCEPT ![c].pc = "sweepArray", ![c].fut.object = nextTask]
    /\ UNCHANGED <<heapVars, fin, spinVars, stwVars, objectContainer, arrayContainer, monitorContainer,
                   objectBitmap, arrayBitmap, overMemoryThreshold, overMemoryThresholdMtx,
                   frames, atCall, work, done, sleepMtx, ready, wk, dequeued, crashed>>

\* lines 116-130: submit the array sweep task
SubmitSweepArray(c) ==
    /\ ~crashed
    /\ gcT[c].pc = "sweepArray"
    /\ Submit("sweepArray", 0)
    /\ gcT' = [gcT EXCEPT ![c].pc = "sweepMonitor", ![c].fut.array = nextTask]
    /\ UNCHANGED <<heapVars, fin, spinVars, stwVars, objectContainer, arrayContainer, monitorContainer,
                   objectBitmap, arrayBitmap, overMemoryThreshold, overMemoryThresholdMtx,
                   frames, atCall, work, done, sleepMtx, ready, wk, dequeued, crashed>>

\* lines 132-143: submit the monitor sweep task
SubmitSweepMonitor(c) ==
    /\ ~crashed
    /\ gcT[c].pc = "sweepMonitor"
    /\ Submit("sweepMonitor", 0)
    /\ gcT' = [gcT EXCEPT ![c].pc = "getSweep", ![c].fut.monitor = nextTask]
    /\ UNCHANGED <<heapVars, fin, spinVars, stwVars, objectContainer, arrayContainer, monitorContainer,
                   objectBitmap, arrayBitmap, overMemoryThreshold, overMemoryThresholdMtx,
                   frames, atCall, work, done, sleepMtx, ready, wk, dequeued, crashed>>

\* lines 145-147: objectFuture.get(); arrayFuture.get(); monitorFuture.get()
GetSweep(c) ==
    /\ ~crashed
    /\ gcT[c].pc = "getSweep"
    /\ {gcT[c].fut.object, gcT[c].fut.array, gcT[c].fut.monitor} \subseteq ready
    /\ gcT' = [gcT EXCEPT ![c].pc = "reset"]
    /\ UNCHANGED <<heapVars, fin, spinVars, poolVars, stwVars, objectContainer, arrayContainer,
                   monitorContainer, objectBitmap, arrayBitmap, overMemoryThreshold,
                   overMemoryThresholdMtx, frames, atCall>>

\* mutant: the mark sets are left as the cycle filled them
GcResetKeepMarks(c) ==
    /\ ~crashed
    /\ gcT[c].pc = "reset"
    /\ overMemoryThreshold' = FALSE
    /\ gcT' = [gcT EXCEPT ![c].pc = "signalWait"]
    /\ UNCHANGED <<heapVars, fin, spinVars, poolVars, stwVars, objectContainer, arrayContainer,
                   monitorContainer, objectBitmap, arrayBitmap, overMemoryThresholdMtx,
                   frames, atCall>>

\* lines 63-65: clear both bitmaps, reset the flag
GcReset(c) ==
    /\ ~crashed
    /\ gcT[c].pc = "reset"
    /\ objectBitmap' = {}
    /\ arrayBitmap' = {}
    /\ overMemoryThreshold' = FALSE
    /\ gcT' = [gcT EXCEPT ![c].pc = "signalWait"]
    /\ UNCHANGED <<heapVars, fin, spinVars, poolVars, stwVars, objectContainer, arrayContainer,
                   monitorContainer, overMemoryThresholdMtx, frames, atCall>>

\* lines 66-67: signalWait(), then the lock_guard releases the mutex on return
GcReturn(c) ==
    /\ ~crashed
    /\ gcT[c].pc = "signalWait"
    /\ SignalWait
    /\ overMemoryThresholdMtx' = 0
    /\ gcT' = [gcT EXCEPT ![c].pc = "done"]
    /\ UNCHANGED <<heapVars, fin, spinVars, stwVars, objectContainer, arrayContainer, monitorContainer,
                   objectBitmap, arrayBitmap, overMemoryThreshold, frames, atCall,
                   done, sleepMtx, taskQueue, ready, nextTask, wk, submitted, dequeued,
                   crashed>>

\* ---------------------------------------------------------------- specification
WorkerStep(w) ==
    \/ W_Loop(w)
    \/ W_Wait(w)
    \/ W_Wake(w)
    \/ RunMark(w)
    \/ MarkInsert(w)
    \/ RunStaticLock(w)
    \/ RunStatic(w)
    \/ RunSweepObject(w)
    \/ RunSweepArray(w)
    \/ RunSweepMonitor(w)

\* everything gc() does once it has been called
CallerStep(c) ==
    \/ GcLock(c)
    \/ GcCheck(c)
    \/ SubmitStackMark(c)
    \/ SubmitLocalMark(c)
    \/ SubmitStaticMark(c)
    \/ GetStatic(c)
    \/ GetStackMarks(c)
    \/ GetLocalMarks(c)
    \/ SubmitSweepObject(c)
    \/ SubmitSweepArray(c)
    \/ SubmitSweepMonitor(c)
    \/ GetSweep(c)
    \/ GcReset(c)
    \/ GcReturn(c)

Next ==
    \/ \E c \in Callers : GcCall(c)
    \/ \E c \in Callers : CallerStep(c)
    \/ \E w \in Workers : WorkerStep(w)
    \/ \E w \in Workers : W_Spurious(w)

Spec == Init /\ [][Next]_vars

\* the workers and the callers inside gc() are scheduled fairly; whether gc() is
\* called at all, and spurious wake-ups, are not forced
Fairness ==
    /\ \A w \in Workers : WF_vars(WorkerStep(w))
    /\ \A c \in Callers : WF_vars(CallerStep(c))

FairSpec == Init /\ [][Next]_vars /\ Fairness

DeepSpec == InitDeep /\ [][Next]_vars

FairDeepSpec == InitDeep /\ [][Next]_vars /\ Fairness

SharedSpec == InitShared /\ [][Next]_vars

SparseSpec == InitSparse /\ [][Next]_vars

\* the collector with a thread that shuts the pool down at any moment
PoolNext ==
    \/ Next
    \/ FinalizeCall
    \/ FinalizeStep

PoolSpec == Init /\ [][PoolNext]_vars

\* a finalize() that was called runs to its end; a spurious wake-up is never owed
FairPoolSpec == Init /\ [][PoolNext]_vars /\ Fairness /\ WF_vars(FinalizeStep)

\* ---------------------------------------------------------------- safepoint barrier
\* safepointWaitCond.notify_all(): every thread blocked in wait becomes runnable
NotifyAllSafepoint(S) == [t \in Threads |-> IF S[t] = "waiting" THEN "woken" ELSE S[t]]

\* mutant: a counter that has passed the thread count also lets callers through
AtSafepointReached(cnt, n) == cnt >= n

\* line 15: the loop ends when the counter equals the executor's thread count
AtSafepoint(cnt, n) == cnt = n

\* a participating thread calls stopTheWorld()
StwCall(t) ==
    /\ t \in participants
    /\ stw[t] \in {"idle", "returned"}
    /\ calls[t] < maxCalls
    /\ calls' = [calls EXCEPT ![t] = @ + 1]
    /\ stw' = [stw EXCEPT ![t] = "enter"]
    /\ UNCHANGED <<heapVars, fin, spinVars, gcVars, poolVars, safepointWaitMtx, safepointWaitCnt,
                   threadNum, participants, maxCalls>>

\* lines 13-14: lock safepointWaitMtx, safepointWaitCnt++
StwEnter(t) ==
    /\ stw[t] = "enter"
    /\ safepointWaitMtx = 0
    /\ safepointWaitMtx' = t
    /\ safepointWaitCnt' = safepointWaitCnt + 1
    /\ stw' = [stw EXCEPT ![t] = "check"]
    /\ UNCHANGED <<heapVars, fin, spinVars, gcVars, poolVars, threadNum, participants, maxCalls, calls>>

\* mutant: the thread that completes the count returns without notify_all
StwCheckNoNotify(t) ==
    /\ stw[t] = "check"
    /\ safepointWaitMtx' = 0
    /\ IF AtSafepoint(safepointWaitCnt, threadNum)
       THEN stw' = [stw EXCEPT ![t] = "returned"]
       ELSE stw' = [stw EXCEPT ![t] = "waiting"]
    /\ UNCHANGED <<heapVars, fin, spinVars, gcVars, poolVars, safepointWaitCnt, threadNum, participants,
                   maxCalls, calls>>

\* lines 15-19: wait (releasing the mutex) while the counter differs from the
\* thread count, else notify_all and return
StwCheck(t) ==
    /\ stw[t] = "check"
    /\ safepointWaitMtx' = 0
    /\ IF AtSafepoint(safepointWaitCnt, threadNum)
       THEN stw' = [NotifyAllSafepoint(stw) EXCEPT ![t] = "returned"]
       ELSE stw' = [stw EXCEPT ![t] = "waiting"]
    /\ UNCHANGED <<heapVars, fin, spinVars, gcVars, poolVars, safepointWaitCnt, threadNum, participants,
                   maxCalls, calls>>

\* a condition variable may wake a waiter without a notify
StwSpurious(t) ==
    /\ stw[t] = "waiting"
    /\ stw' = [stw EXCEPT ![t] = "woken"]
    /\ UNCHANGED <<heapVars, fin, spinVars, gcVars, poolVars, safepointWaitMtx, safepointWaitCnt,
                   threadNum, participants, maxCalls, calls>>

\* mutant: an if in place of the while, a woken thread does not re-test the counter
StwWakeNoRecheck(t) ==
    /\ stw[t] = "woken"
    /\ safepointWaitMtx = 0
    /\ safepointWaitMtx' = 0
    /\ stw' = [NotifyAllSafepoint(stw) EXCEPT ![t] = "returned"]
    /\ UNCHANGED <<heapVars, fin, spinVars, gcVars, poolVars, safepointWaitCnt, threadNum, participants,
                   maxCalls, calls>>

\* lines 15-16: wait() returns holding the mutex again, the loop re-tests the counter
StwWake(t) ==
    /\ stw[t] = "woken"
    /\ safepointWaitMtx = 0
    /\ safepointWaitMtx' = t
    /\ stw' = [stw EXCEPT ![t] = "check"]
    /\ UNCHANGED <<heapVars, fin, spinVars, gcVars, poolVars, safepointWaitCnt, threadNum, participants,
                   maxCalls, calls>>

\* everything stopTheWorld() does once it has been called
StwStep(t) ==
    \/ StwEnter(t)
    \/ StwCheck(t)
    \/ StwWake(t)

BarrierNext ==
    \/ \E t \in Threads : StwCall(t)
    \/ \E t \in Threads : StwStep(t)
    \/ \E t \in Threads : StwSpurious(t)

\* the barrier alone: an idle collector over a heap without references
BarrierInit ==
    /\ InitHeap(0)
    /\ overMemoryThreshold = FALSE
    /\ InitGC
    /\ InitPool
    /\ atCall = [c \in Callers |-> NoSnapshot]
    /\ InitBarrier
    /\ threadNum \in 1..MaxThreads
    /\ participants \in SUBSET Threads
    /\ maxCalls \in 1..MaxCalls

BarrierSpec == BarrierInit /\ [][BarrierNext]_vars

\* the threads inside stopTheWorld() are scheduled fairly; calls and spurious
\* wake-ups are not forced
FairBarrierSpec ==
    BarrierInit /\ [][BarrierNext]_vars /\ \A t \in Threads : WF_vars(StwStep(t))

\* ---------------------------------------------------------------- reachability
\* the roots: every stack slot, every local slot, every static field
Roots ==
    (UNION {Range(frameChain[f].stackSlots) \cup Range(frameChain[f].localSlots) :
            f \in 1..Len(frameChain)}
     \cup {staticVars[k] : k \in DOMAIN staticVars}) \cap HeapValues

RECURSIVE Closure(_)
Closure(S) ==
    LET more == (UNION {Range(fields[v]) : v \in S}) \cap HeapValues
    IN IF more \subseteq S THEN S ELSE Closure(S \cup more)

Reachable == Closure(Roots)

Present(v) ==
    IF v.kind = "JObject" THEN v.offset \in objectContainer
    ELSE v.offset \in arrayContainer

\* a gc() call that ran a cycle has returned
CycleReturned == \E c \in Callers : gcT[c].ran /\ gcT[c].pc = "done"

InBody == {"locked", "submitStack", "submitLocal", "submitStatic", "getStatic", "getStack",
           "getLocal", "sweepObject", "sweepArray", "sweepMonitor", "getSweep", "reset",
           "signalWait"}

\* ---------------------------------------------------------------- claims
\* C1: every heap value reachable from a stack slot, a local slot or a static
\* field when the cycle starts is still in its container when gc() returns
C1_ReachableSurvive ==
    CycleReturned => \A v \in Reachable : Present(v)

\* C2: every heap value not reachable from any root when the cycle starts is
\* absent from its container when gc() returns
C2_UnreachableCollected ==
    CycleReturned => \A v \in HeapValues \ Reachable : ~Present(v)

\* C3: at most one caller is between acquiring overMemoryThresholdMtx and
\* returning, and a caller that holds the mutex while another caller has run a
\* cycle finds that cycle returned, both mark sets empty and the flag reset
C3_Serialized ==
    /\ Cardinality({c \in Callers : gcT[c].pc \in InBody}) <= 1
    /\ \A c \in Callers : gcT[c].pc \in InBody => overMemoryThresholdMtx = c
    /\ \A b, c \in Callers :
           (b # c /\ gcT[b].pc = "locked" /\ gcT[c].ran) =>
               /\ gcT[c].pc = "done"
               /\ objectBitmap = {}
               /\ arrayBitmap = {}
               /\ ~overMemoryThreshold

\* a second caller holds the mutex after having called gc() while the first
\* caller's cycle had not reset the flag yet
C3_Witness ==
    \E b, c \in Callers :
        /\ b # c
        /\ gcT[b].pc = "locked"
        /\ atCall[b] = NoSnapshot
        /\ gcT[c].ran
        /\ gcT[c].pc = "done"

\* C4: a gc() call made while overMemoryThreshold is false returns without
\* running a cycle or submitting a task, and the containers, the mark sets and
\* the flag are what they were when it was called
C4_NoopUnchanged ==
    \A c \in Callers :
        (gcT[c].pc = "done" /\ atCall[c] # NoSnapshot) =>
            /\ ~gcT[c].ran
            /\ Snapshot = atCall[c]

\* a call made with the flag clear has returned, on a heap that holds garbage
C4_Witness ==
    \E c \in Callers :
        /\ gcT[c].pc = "done"
        /\ atCall[c] # NoSnapshot
        /\ Reachable # HeapValues

\* C5: once sweep() has returned, a monitor entry whose offset is in the object
\* mark set and not in the array mark set is still in monitorContainer
C5_MonitorSurvives ==
    (\E c \in Callers : gcT[c].pc = "reset") =>
        \A m \in ObjectOffsets \cup ArrayOffsets :
            (m \in objectBitmap /\ m \notin arrayBitmap) => m \in monitorContainer

MarkIds(c) ==
    Range(gcT[c].fut.stack) \cup Range(gcT[c].fut.local) \cup {gcT[c].fut.static}

SweepStarted ==
    \/ \E i \in 1..Len(taskQueue) : taskQueue[i].kind \in SweepKinds
    \/ \E w \in Workers : wk[w].task.kind \in SweepKinds
    \/ objectContainer # ObjectOffsets
    \/ arrayContainer # ArrayOffsets
    \/ monitorContainer # ObjectOffsets \cup ArrayOffsets

\* C6: no sweep task has been submitted and no container entry erased unless
\* every stack mark task, every local mark task and the static mark task of the
\* cycle has been submitted and has finished
C6_MarkBeforeSweep ==
    SweepStarted =>
        /\ \E c \in Callers :
               /\ gcT[c].ran
               /\ Len(gcT[c].fut.stack) = Len(frameChain)
               /\ Len(gcT[c].fut.local) = Len(frameChain)
               /\ gcT[c].fut.static # 0
               /\ MarkIds(c) \subseteq ready
        /\ \A i \in 1..Len(taskQueue) : taskQueue[i].kind \notin MarkKinds
        /\ \A w \in Workers : wk[w].task.kind \notin MarkKinds

\* a sweep task is queued while another one runs
C6_Witness ==
    /\ \E i \in 1..Len(taskQueue) : taskQueue[i].kind \in SweepKinds
    /\ \E w \in Workers : wk[w].task.kind \in SweepKinds
    /\ objectBitmap \cup arrayBitmap # {}

\* C7: the tasks are dequeued in the order of their submission, each at most
\* once, and no two workers hold the same task
C7_FifoOnce ==
    /\ IsPrefix(dequeued, submitted)
    /\ \A i, j \in 1..Len(dequeued) : i # j => dequeued[i] # dequeued[j]
    /\ \A v, w \in Workers :
           (v # w /\ wk[v].task # NoTask) => wk[v].task.id # wk[w].task.id

\* several tasks were dequeued while others were still queued
C7_Witness ==
    /\ Len(dequeued) >= 2
    /\ Len(taskQueue) >= 2

\* C8: a gc() call that has entered a cycle eventually returns
C8_CycleTerminates ==
    \A c \in Callers : (gcT[c].ran /\ gcT[c].pc # "done") ~> (gcT[c].pc = "done")

\* exactly threadNum threads call stopTheWorld(), each once
ExactlyN == Cardinality(participants) = threadNum /\ maxCalls = 1

\* C9: no caller of stopTheWorld() has returned while safepointWaitCnt is below
\* the thread count N, and when exactly N threads call, once the N-th has
\* arrived every one of them eventually returns
C9_Rendezvous ==
    /\ [](\A t \in Threads : stw[t] = "returned" => safepointWaitCnt >= threadNum)
    /\ (ExactlyN /\ safepointWaitCnt = threadNum)
           ~> (\A t \in participants : stw[t] = "returned")

\* all of at least two threads have returned from one rendezvous
C9_Witness ==
    /\ ExactlyN
    /\ threadNum >= 2
    /\ safepointWaitCnt = threadNum
    /\ \A t \in participants : stw[t] = "returned"

\* C10: when fewer threads call stopTheWorld() than the thread count, no caller
\* ever returns
C10_MismatchBlocks ==
    Cardinality(participants) < threadNum => \A t \in Threads : stw[t] # "returned"

\* fewer callers than the thread count, all of them blocked in the wait
C10_Witness ==
    /\ participants # {}
    /\ Cardinality(participants) < threadNum
    /\ \A t \in participants : stw[t] = "waiting"

\* C11: once finalize() has been called, every worker eventually observes done and
\* leaves runPendingWork, whatever the interleaving with the workers' test of the
\* work flag and their wait
C11_ShutdownLive ==
    (fin # "idle") ~> (\A w \in Workers : wk[w].pc = "exited")

\* no gc() call is between taking overMemoryThresholdMtx and returning
Idle == \A c \in Callers : gcT[c].pc \notin InBody

\* C12: whenever no gc() call is in progress both mark sets are empty, and once a
\* gc() call that ran a cycle has returned the flag is clear and the pool is back
\* to waiting (the work flag is clear)
C12_IdleReset ==
    /\ Idle => objectBitmap = {} /\ arrayBitmap = {}
    /\ CycleReturned => ~overMemoryThreshold /\ ~work

\* a cycle that marked something has returned and no call is in progress
C12_Witness ==
    /\ Idle
    /\ CycleReturned
    /\ Roots # {}
    /\ \E v \in Roots : Present(v)

\* worker w is in a stack-slot / local-slot task and about to call mark()
AtMarkCall(w) ==
    /\ wk[w].pc = "run"
    /\ wk[w].task.kind \in {"stack", "local"}
    /\ wk[w].ref = Null

\* every slot of every frame of the chain is null
AllSlotsNull ==
    \A f \in 1..Len(frameChain) :
        Range(frameChain[f].stackSlots) \cup Range(frameChain[f].localSlots) = {Null}

\* C13: a mark() call on a null reference returns without error and leaves both mark
\* sets as they were, so a frame whose slots are all null adds no entry to either
\* mark set (whatever is in them then comes from the static-field task)
C13_NullSafe ==
    /\ [][\A w \in Workers :
            (AtMarkCall(w) /\ PendingRef(w) = Null /\ wk'[w] # wk[w])
                => /\ objectBitmap' = objectBitmap
                   /\ arrayBitmap' = arrayBitmap
                   /\ crashed' = crashed]_vars
    /\ [](AllSlotsNull => /\ objectBitmap \subseteq StaticMarks(staticVars, "JObject")
                          /\ arrayBitmap \subseteq StaticMarks(staticVars, "JArray"))

\* both mark tasks of a frame with only null slots have returned
C13_Witness ==
    /\ AllSlotsNull
    /\ \E c \in Callers :
        /\ gcT[c].fut.stack # <<>>
        /\ gcT[c].fut.local # <<>>
        /\ Range(gcT[c].fut.stack) \cup Range(gcT[c].fut.local) \subseteq ready

\* worker w is inside mark(ref), holding the spin lock, about to insert ref's offset
AtInsert(w) ==
    /\ wk[w].pc = "run"
    /\ wk[w].task.kind \in {"stack", "local"}
    /\ wk[w].ref # Null

\* the offset of ref is already in the mark set of its kind
Marked(ref) ==
    IF ref.kind = "JObject" THEN ref.offset \in objectBitmap
    ELSE ref.offset \in arrayBitmap

\* C14: when mark() inserts the offset of an object or array that was already marked
\* in this cycle (reached along a second path), both mark sets stay exactly as they
\* were: the offset is held once, nothing else is added, nothing is lost
C14_InsertIdempotent ==
    [][\A w \in Workers :
          (AtInsert(w) /\ Marked(wk[w].ref) /\ wk'[w] # wk[w])
              => /\ objectBitmap' = objectBitmap
                 /\ arrayBitmap' = arrayBitmap]_vars

\* the stack-slot task and the local-slot task have both marked the same heap value
C14_Witness ==
    /\ frameChain[1].stackSlots = frameChain[1].localSlots
    /\ frameChain[1].stackSlots[1] # Null
    /\ Marked(frameChain[1].stackSlots[1])
    /\ \E c \in Callers :
        /\ gcT[c].fut.stack # <<>>
        /\ gcT[c].fut.local # <<>>
        /\ Range(gcT[c].fut.stack) \cup Range(gcT[c].fut.local) \subseteq ready

\* positions of gc() between the static-field future's get() and the clearing of the
\* mark sets
MarksKept == {"getStack", "getLocal", "sweepObject", "sweepArray", "sweepMonitor",
              "getSweep", "reset"}

\* C15: once the static-field task has completed, for every static field that
\* references an object (array) the heap offset of the referenced object (array) is
\* in the object (array) mark set
C15_StaticRoots ==
    \A c \in Callers :
        (gcT[c].pc \in MarksKept /\ gcT[c].fut.static \in ready)
            => \A k \in DOMAIN staticVars :
                   /\ staticVars[k].kind = "JObject" => staticVars[k].offset \in objectBitmap
                   /\ staticVars[k].kind = "JArray" => staticVars[k].offset \in arrayBitmap

\* C16: every offset a mark task or the static-field task inserts into objectBitmap
\* (arrayBitmap) is, at that moment, the key of an entry of objectContainer
\* (arrayContainer)
C16_MarksValid ==
    [][/\ (objectBitmap' \ objectBitmap) \subseteq objectContainer
       /\ (arrayBitmap' \ arrayBitmap) \subseteq arrayContainer]_vars

\* worker w is inside an insertion into the mark set of the given kind, in a mark
\* task or in the static-field task
Inserting(w, kind) ==
    /\ wk[w].pc = "run"
    /\ wk[w].ref.kind = kind

\* C17: at most one task at a time is inside an insertion into objectBitmap, and it
\* is the holder of objSpin; likewise arrayBitmap and arrSpin; a worker holds a spin
\* lock only inside the insertion of that lock's kind (never the other lock, never
\* while it recurses), and an offset is added to a mark set only under its lock
C17_SpinExclusion ==
    /\ [](/\ Cardinality({w \in Workers : Inserting(w, "JObject")}) <= 1
          /\ Cardinality({w \in Workers : Inserting(w, "JArray")}) <= 1
          /\ \A w \in Workers : /\ Inserting(w, "JObject") <=> objSpin = w
                                /\ Inserting(w, "JArray") <=> arrSpin = w)
    /\ [][/\ (objectBitmap' \ objectBitmap) # {}
                => objSpin # 0 /\ Inserting(objSpin, "JObject") /\ objSpin' = 0
          /\ (arrayBitmap' \ arrayBitmap) # {}
                => arrSpin # 0 /\ Inserting(arrSpin, "JArray") /\ arrSpin' = 0]_vars

\* a mark task is inserting an object's offset under objSpin while arrSpin is free
C17_Witness ==
    \E w \in Workers :
        /\ Inserting(w, "JObject")
        /\ objSpin = w
        /\ arrSpin = 0
        /\ wk[w].task.kind \in {"stack", "local"}

\* positions of gc() from the start of sweep() to its return
InSweep == {"sweepObject", "sweepArray", "sweepMonitor", "getSweep"}

\* worker w runs the sweep task of the given kind in this step
Sweeps(w, kind) ==
    /\ wk[w].pc = "run"
    /\ wk[w].task.kind = kind
    /\ wk'[w] # wk[w]

\* C18: from the start of sweep() until it returns no step modifies objectBitmap or
\* arrayBitmap, and each sweep task only erases entries of its own container: the
\* object task of objectContainer, the array task of arrayContainer, the monitor
\* task of monitorContainer
C18_SweepFrame ==
    [][/\ (\E c \in Callers : gcT[c].pc \in InSweep)
            => objectBitmap' = objectBitmap /\ arrayBitmap' = arrayBitmap
       /\ \A w \in Workers :
            /\ Sweeps(w, "sweepObject")
                => /\ objectContainer' \subseteq objectContainer
                   /\ UNCHANGED <<arrayContainer, monitorContainer>>
            /\ Sweeps(w, "sweepArray")
                => /\ arrayContainer' \subseteq arrayContainer
                   /\ UNCHANGED <<objectContainer, monitorContainer>>
            /\ Sweeps(w, "sweepMonitor")
                => /\ monitorContainer' \subseteq monitorContainer
                   /\ UNCHANGED <<objectContainer, arrayContainer>>]_vars

\* inside sweep(), with a non-empty mark set, the three sweep tasks have run and the
\* object task and the array task have erased entries
C18_Witness ==
    /\ objectBitmap # {}
    /\ objectContainer # ObjectOffsets
    /\ arrayContainer # ArrayOffsets
    /\ \E c \in Callers :
        /\ gcT[c].pc = "getSweep"
        /\ {gcT[c].fut.object, gcT[c].fut.array, gcT[c].fut.monitor} \subseteq ready

\* C19: safepointWaitCnt only ever grows, and once it has passed the thread count
\* (a stopTheWorld() call arrived after a rendezvous of N calls) no call returns any
\* more: neither the further call nor a caller of the first rendezvous that had not
\* re-tested the counter by then
C19_SingleUse ==
    [][/\ safepointWaitCnt' >= safepointWaitCnt
       /\ safepointWaitCnt > threadNum
            => \A t \in Threads : stw'[t] = "returned" => stw[t] = "returned"]_vars

\* a second call arrived after the rendezvous: it is blocked, and so is a caller of
\* the first rendezvous that re-tested the counter too late
C19_Witness ==
    /\ safepointWaitCnt > threadNum
    /\ \E t \in participants : calls[t] = 1 /\ stw[t] = "waiting"
    /\ \E t \in participants : calls[t] = 2 /\ stw[t] = "waiting"
    /\ \E t \in participants : stw[t] = "returned"

\* C20: a worker that runs a task holds sleepMtx, so at most one worker runs a task
\* at a time, and a task is dequeued only after every task dequeued before it has
\* returned: the mark tasks and the sweep tasks run one after another
C20_OneTaskAtATime ==
    /\ \A w \in Workers : wk[w].pc = "run" => sleepMtx = w
    /\ Cardinality({w \in Workers : wk[w].pc = "run"}) <= 1
    /\ \A i \in 1..(Len(dequeued) - 1) : dequeued[i] \in ready

\* a worker runs a task while another task is queued and another worker is at the
\* top of its loop with the work flag set
C20_Witness ==
    \E w, u \in Workers :
        /\ w # u
        /\ wk[w].pc = "run"
        /\ taskQueue # <<>>
        /\ work
        /\ wk[u].pc \in {"loop", "woken"}

====
